---- MODULE Spec2Model ----
(***************************************************************************)
(* Thockify - the pooled AudioManager (src/unnamed/part_001, lines 1-626)  *)
(* on the single-threaded event loop.  One action per public method, per   *)
(* continuation of an await, and per event the platform delivers (a load   *)
(* settling, a timer firing, resume() settling, a source's onended).       *)
(*                                                                         *)
(* Volumes are counted in tenths: 5 stands for 0.5, 10 for 1.0.  The       *)
(* manager only clamps and copies volumes, so tenths are exact.            *)
(*                                                                         *)
(* The service worker (src/src/background/service-worker.ts) runs beside   *)
(* the manager: its injection of the content script into tabs and its      *)
(* keyboard commands on the stored settings.                               *)
(***************************************************************************)
EXTENDS Integers, Sequences, FiniteSets, Bags, TLC

(***************************************************************************)
(* Program constants                                                       *)
(***************************************************************************)
\* AUDIO_CONFIG.DEFAULT_VOLUME = 0.5
DEFAULT_VOLUME == 5
\* the upper clamp 1 of Math.max(0, Math.min(1, volume))
VOLUME_ONE == 10
\* AUDIO_CONFIG.MAX_CONCURRENT_SOUNDS, the value of maxPoolSize
MAX_CONCURRENT_SOUNDS == 10
\* the literal 5 of Math.min(this.maxPoolSize, 5) in initializeBufferPools
POOL_PRECREATE == 5

maxPoolSize == MAX_CONCURRENT_SOUNDS

\* PATHS.SOUND_FILES, in the order Object.entries visits it: press first
CatalogSeq ==
  << <<"press", "generic">>, <<"press", "backspace">>,
     <<"press", "enter">>,   <<"press", "space">>,
     <<"release", "generic">>, <<"release", "backspace">>,
     <<"release", "enter">>,   <<"release", "space">> >>

CatalogIdx == 1..Len(CatalogSeq)

BufferKeys == {CatalogSeq[n] : n \in CatalogIdx}

KeyTypes == {"generic", "backspace", "enter", "space"}

SoundActions == {"press", "release"}

\* `${action}:${keyType}`
BufferKey(action, keyType) == <<action, keyType>>

\* Map.get of an absent key
NoBuffer == <<>>

(***************************************************************************)
(* Bounds of the model                                                     *)
(***************************************************************************)
\* initialize() calls that get past the isInitialized guard
MaxInit == 3
\* playKeySound calls issued
MaxPlay == 11
\* loads of one batch that are settled by their timeout, where an environment
\* limits them
MaxTimeouts == 2

InitIds == 1..MaxInit

VARIABLES
  audioContext,          \* 0 for null, else the id of the context it holds
  ctxState,              \* context id -> "none" | "suspended" | "running" | "closed"
  isInitialized,
  preloadingPromise,     \* 0 for null, else the initialize() call whose batch it is
  masterGainNode,        \* 0 for null, else the context that created the node
  masterGain,            \* masterGainNode.gain.value
  rampTarget,            \* -1, or the target of the ramp scheduled on masterGainNode
  activeSourceNodes,     \* ids of the sources in the Set
  sources,               \* started sources whose onended has not run: [id, sg, kg]
  audioBuffers,          \* buffer key -> the key whose asset the buffer decodes, or NoBuffer
  loadingStats,
  currentVolume,
  isMuted,
  volumeBeforeMute,
  gainNodePool,          \* the Set in insertion order; a gain node is <<context, serial>>
  concurrentSoundsCount,
  initPc,                \* initialize() call -> where it stands
  initWait,              \* initialize() call -> the context whose resume() it awaits
  loads,                 \* initialize() call -> catalog index -> state of that load
  playCalls,             \* bag of suspended playKeySound calls
  nPlay,                 \* playKeySound calls issued so far
  ret,                   \* outcome of the latest call that returned or settled
  storageSettings,       \* chrome.storage.sync as getSettings() reads it
  commandCalls,          \* bag of suspended onCommand handlers
  tabScripts,            \* tab -> times content-script.js was executed in its page
  injectCalls,           \* bag of suspended injectIntoTab calls
  nInject                \* injectIntoTab calls issued so far

volumeVars == <<currentVolume, isMuted, volumeBeforeMute>>
gainVars == <<masterGainNode, masterGain, rampTarget>>
contextVars == <<audioContext, ctxState>>
loadVars == <<audioBuffers, loadingStats, loads>>
initVars == <<isInitialized, preloadingPromise, initPc, initWait>>
soundVars == <<activeSourceNodes, sources, gainNodePool, concurrentSoundsCount>>
callVars == <<playCalls, nPlay>>
managerVars == <<volumeVars, gainVars, contextVars, loadVars, initVars, soundVars,
                 callVars>>
workerVars == <<storageSettings, commandCalls, tabScripts, injectCalls, nInject>>

vars == <<managerVars, ret, workerVars>>

ZeroStats == [totalFiles |-> 0, loadedFiles |-> 0, failedFiles |-> 0]

\* The tabs the browser has open, by what tab.url starts with
TabUrl == <<"https://", "http://", "chrome://">>

TabIds == 1..Len(TabUrl)

\* DEFAULT_SETTINGS: the fields the service worker reads and writes
DEFAULT_SETTINGS == [enabled |-> TRUE, volume |-> 5, lastVolume |-> 5]

\* The field initialisers of the class
Init ==
  /\ audioContext = 0
  /\ ctxState = [c \in InitIds |-> "none"]
  /\ isInitialized = FALSE
  /\ preloadingPromise = 0
  /\ masterGainNode = 0
  /\ masterGain = 0
  /\ rampTarget = -1
  /\ activeSourceNodes = {}
  /\ sources = {}
  /\ audioBuffers = [k \in BufferKeys |-> NoBuffer]
  /\ loadingStats = ZeroStats
  /\ currentVolume = DEFAULT_VOLUME
  /\ isMuted = FALSE
  /\ volumeBeforeMute = DEFAULT_VOLUME
  /\ gainNodePool = <<>>
  /\ concurrentSoundsCount = 0
  /\ initPc = [i \in InitIds |-> "idle"]
  /\ initWait = [i \in InitIds |-> 0]
  /\ loads = [i \in InitIds |-> [n \in CatalogIdx |-> "none"]]
  /\ playCalls = EmptyBag
  /\ nPlay = 0
  /\ ret = [op |-> "new", val |-> "void"]
  /\ storageSettings = DEFAULT_SETTINGS
  /\ commandCalls = EmptyBag
  /\ tabScripts = [t \in TabIds |-> 0]
  /\ injectCalls = EmptyBag
  /\ nInject = 0

(***************************************************************************)
(* Volume and mute                                                         *)
(***************************************************************************)
\* Clamp without its two bounds: the argument as it comes
ClampUnbounded(volume) == volume

\* Math.max(0, Math.min(1, volume))
Clamp(volume) ==
  IF volume < 0 THEN 0 ELSE IF volume > VOLUME_ONE THEN VOLUME_ONE ELSE volume

\* isMuted after the mute-state branch of setVolume
MuteAfter(clampedVolume, muted) ==
  IF clampedVolume = 0 /\ ~muted THEN TRUE
  ELSE IF clampedVolume > 0 /\ muted THEN FALSE
  ELSE muted

\* BeforeMuteAfter without its "> 0" test: the branch records this.currentVolume
\* as it finds it, which is the 0 just stored
BeforeMuteAfterUnguarded(clampedVolume, muted, before) ==
  IF clampedVolume = 0 /\ ~muted THEN clampedVolume ELSE before

\* volumeBeforeMute after the mute-state branch of setVolume: the branch reads
\* this.currentVolume, which line 446 has already overwritten with clampedVolume
BeforeMuteAfter(clampedVolume, muted, before) ==
  LET current == clampedVolume IN
  IF clampedVolume = 0 /\ ~muted
  THEN (IF current > 0 THEN current ELSE before)
  ELSE before

\* The body of setVolume(volume, rampTimeMs).  before is volumeBeforeMute as the
\* caller left it (toggleMute and setMute assign it just before they call).
setVolume(volume, rampTimeMs, before) ==
  LET clampedVolume == Clamp(volume)
      muted == MuteAfter(clampedVolume, isMuted)
      targetVolume == IF muted THEN 0 ELSE clampedVolume
  IN
  /\ currentVolume' = clampedVolume
  /\ IF masterGainNode = 0
     THEN /\ isMuted' = isMuted
          /\ volumeBeforeMute' = before
          /\ UNCHANGED gainVars
     ELSE /\ isMuted' = muted
          /\ volumeBeforeMute' = BeforeMuteAfter(clampedVolume, isMuted, before)
          /\ masterGainNode' = masterGainNode
          /\ IF rampTimeMs > 0 /\ audioContext # 0
             THEN \* cancelScheduledValues, setValueAtTime, linearRampToValueAtTime
                  /\ rampTarget' = targetVolume
                  /\ masterGain' = masterGain
             ELSE \* gain.value = targetVolume; what is scheduled stays scheduled
                  /\ masterGain' = targetVolume
                  /\ rampTarget' = rampTarget

\* setVolume called by the host
SetVolume(volume, rampTimeMs) ==
  /\ setVolume(volume, rampTimeMs, volumeBeforeMute)
  /\ ret' = [op |-> "setVolume", val |-> "void"]
  /\ UNCHANGED <<contextVars, loadVars, initVars, soundVars, callVars>>
  /\ UNCHANGED workerVars

\* fadeVolume(targetVolume, durationMs)
FadeVolume(targetVolume, durationMs) ==
  /\ setVolume(targetVolume, durationMs, volumeBeforeMute)
  /\ ret' = [op |-> "fadeVolume", val |-> "void"]
  /\ UNCHANGED <<contextVars, loadVars, initVars, soundVars, callVars>>
  /\ UNCHANGED workerVars

\* toggleMute(): returns this.isMuted as setVolume left it
ToggleMute ==
  /\ IF isMuted
     THEN setVolume(volumeBeforeMute, 0, volumeBeforeMute)
     ELSE setVolume(0, 0, currentVolume)
  /\ ret' = [op |-> "toggleMute", val |-> isMuted']
  /\ UNCHANGED <<contextVars, loadVars, initVars, soundVars, callVars>>
  /\ UNCHANGED workerVars

\* setMute(muted)
SetMute(muted) ==
  /\ IF muted /\ ~isMuted
     THEN setVolume(0, 0, currentVolume)
     ELSE IF ~muted /\ isMuted
     THEN setVolume(volumeBeforeMute, 0, volumeBeforeMute)
     ELSE UNCHANGED <<volumeVars, gainVars>>
  /\ ret' = [op |-> "setMute", val |-> "void"]
  /\ UNCHANGED <<contextVars, loadVars, initVars, soundVars, callVars>>
  /\ UNCHANGED workerVars

\* The scheduled ramp reaches its end time
RampComplete ==
  /\ masterGainNode # 0
  /\ rampTarget # -1
  /\ masterGain' = rampTarget
  /\ rampTarget' = -1
  /\ UNCHANGED <<masterGainNode, volumeVars, contextVars, loadVars, initVars,
                 soundVars, callVars, ret>>
  /\ UNCHANGED workerVars

\* getVolume()
getVolume == currentVolume

(***************************************************************************)
(* Gain-node pool                                                          *)
(***************************************************************************)
Range(seq) == {seq[n] : n \in 1..Len(seq)}

Min(a, b) == IF a < b THEN a ELSE b

Max(a, b) == IF a > b THEN a ELSE b

\* Gain nodes some closure or the pool still refers to
LiveNodes == Range(gainNodePool) \cup {s.sg : s \in sources} \cup {s.kg : s \in sources}

\* context.createGain(): a node no live reference names
NewGainNode(ctx, used) ==
  <<ctx, CHOOSE n \in 1..(Cardinality(used) + 1) :
           /\ <<ctx, n>> \notin used
           /\ \A m \in 1..(n - 1) : <<ctx, m>> \in used>>

\* Set.add
PoolAdd(pool, gainNode) ==
  IF gainNode \in Range(pool) THEN pool ELSE Append(pool, gainNode)

RECURSIVE PrecreateGainNodes(_, _, _, _)
\* the loop of initializeBufferPools
PrecreateGainNodes(pool, used, ctx, count) ==
  IF count = 0 THEN pool
  ELSE LET gainNode == NewGainNode(ctx, used) IN
       PrecreateGainNodes(Append(pool, gainNode), used \cup {gainNode}, ctx, count - 1)

\* initializeBufferPools(), run with this.audioContext = ctx
initializeBufferPools(ctx) ==
  IF ctx = 0 THEN gainNodePool
  ELSE PrecreateGainNodes(gainNodePool, LiveNodes, ctx, Min(maxPoolSize, POOL_PRECREATE))

\* releaseGainNode(gainNode) applied to pool
releaseGainNode(pool, gainNode) ==
  IF Len(pool) < maxPoolSize THEN PoolAdd(pool, gainNode) ELSE pool

\* canPlayConcurrentSound()
canPlayConcurrentSound == concurrentSoundsCount < maxPoolSize

\* decrementConcurrentSounds()
decrementConcurrentSounds(count) == Max(0, count - 1)

(***************************************************************************)
(* initialize(), preloadSounds() and the loads                             *)
(***************************************************************************)
\* The initialize() call that runs next takes the first unused slot
NextInit(i) ==
  /\ initPc[i] = "idle"
  /\ \A j \in InitIds : j < i => initPc[j] # "idle"

Settled == {"loaded", "failed", "timedout", "late"}

\* initialize() from initializeBufferPools() to the await in preloadSounds(),
\* run when this.audioContext holds ctx (0: destroy() ran during the await)
ContinueInit(i, ctx) ==
  /\ gainNodePool' = initializeBufferPools(ctx)
  /\ IF ctx = 0
     THEN \* preloadSounds throws 'Audio context not available'
          /\ initPc' = [initPc EXCEPT ![i] = "rejected"]
          /\ ret' = [op |-> "initialize", val |-> "NoContext"]
          /\ UNCHANGED <<loadingStats, loads, preloadingPromise>>
     ELSE /\ loadingStats' = [totalFiles |-> Len(CatalogSeq), loadedFiles |-> 0,
                              failedFiles |-> 0]
          /\ loads' = [loads EXCEPT ![i] = [n \in CatalogIdx |-> "pending"]]
          /\ preloadingPromise' = i
          /\ initPc' = [initPc EXCEPT ![i] = "preload"]
          /\ ret' = ret

\* initialize() up to its first await.  created is the state the platform gives
\* the new context; the context takes the id of the call.
Initialize(i, created) ==
  /\ ~isInitialized
  /\ NextInit(i)
  /\ audioContext' = i
  /\ ctxState' = [ctxState EXCEPT ![i] = created]
  /\ masterGainNode' = i
  /\ masterGain' = DEFAULT_VOLUME
  /\ rampTarget' = -1
  /\ IF created = "suspended"
     THEN /\ initPc' = [initPc EXCEPT ![i] = "resume"]
          /\ initWait' = [initWait EXCEPT ![i] = i]
          /\ UNCHANGED <<gainNodePool, loadingStats, loads, preloadingPromise, ret>>
     ELSE /\ ContinueInit(i, i)
          /\ initWait' = initWait
  /\ UNCHANGED <<isInitialized, audioBuffers, volumeVars, activeSourceNodes,
                 sources, concurrentSoundsCount, callVars>>
  /\ UNCHANGED workerVars

\* InitializeUnavailable going on to preloadSounds() without a context of its own
InitializeUnavailableLoading(i) ==
  /\ ~isInitialized
  /\ NextInit(i)
  /\ initPc' = [initPc EXCEPT ![i] = "rejected"]
  /\ loads' = [loads EXCEPT ![i] = [n \in CatalogIdx |-> "pending"]]
  /\ ret' = [op |-> "initialize", val |-> "AudioUnavailable"]
  /\ UNCHANGED <<isInitialized, preloadingPromise, initWait, volumeVars, gainVars,
                 contextVars, audioBuffers, loadingStats, soundVars, callVars>>
  /\ UNCHANGED workerVars

\* initialize() when createAudioContext() throws 'Audio not supported in this browser'
InitializeUnavailable(i) ==
  /\ ~isInitialized
  /\ NextInit(i)
  /\ initPc' = [initPc EXCEPT ![i] = "rejected"]
  /\ ret' = [op |-> "initialize", val |-> "AudioUnavailable"]
  /\ UNCHANGED <<isInitialized, preloadingPromise, initWait, volumeVars, gainVars,
                 contextVars, loadVars, soundVars, callVars>>
  /\ UNCHANGED workerVars

\* InitializeNoop starting over: the statistics are reset as by preloadSounds()
InitializeNoopRestarting ==
  /\ isInitialized
  /\ loadingStats' = ZeroStats
  /\ ret' = [op |-> "initialize", val |-> "alreadyInitialized"]
  /\ UNCHANGED <<volumeVars, gainVars, contextVars, audioBuffers, loads, initVars,
                 soundVars, callVars>>
  /\ UNCHANGED workerVars

\* initialize() on an initialized manager: the early return resolves at once
InitializeNoop ==
  /\ isInitialized
  /\ ret' = [op |-> "initialize", val |-> "alreadyInitialized"]
  /\ UNCHANGED <<volumeVars, gainVars, contextVars, loadVars, initVars, soundVars,
                 callVars>>
  /\ UNCHANGED workerVars

\* The resume() that call i awaits resolves
InitResumeResolves(i) ==
  /\ initPc[i] = "resume"
  /\ ctxState[initWait[i]] \in {"suspended", "running"}
  /\ ctxState' = [ctxState EXCEPT ![initWait[i]] = "running"]
  /\ ContinueInit(i, audioContext)
  /\ UNCHANGED <<audioContext, isInitialized, initWait, audioBuffers, volumeVars,
                 gainVars, activeSourceNodes, sources, concurrentSoundsCount, callVars>>
  /\ UNCHANGED workerVars

\* The resume() that call i awaits rejects: the catch rethrows
InitResumeRejects(i) ==
  /\ initPc[i] = "resume"
  /\ initPc' = [initPc EXCEPT ![i] = "rejected"]
  /\ ret' = [op |-> "initialize", val |-> "ResumeFailed"]
  /\ UNCHANGED <<isInitialized, preloadingPromise, initWait, volumeVars, gainVars,
                 contextVars, loadVars, soundVars, callVars>>
  /\ UNCHANGED workerVars

\* shouldUseFallback(action, keyType)
shouldUseFallback(action, keyType) ==
  /\ keyType \in {"backspace", "enter", "space"}
  /\ audioBuffers[BufferKey(action, keyType)] = NoBuffer
  /\ audioBuffers[BufferKey(action, "generic")] # NoBuffer

\* The catch block of loadSoundBufferWithTimeout for catalog entry n.  With
\* this.audioContext null loadFallbackBuffer throws before it stores anything.
LoadCatch(n) ==
  LET action == CatalogSeq[n][1]
      keyType == CatalogSeq[n][2]
      fallback == /\ keyType # "generic"
                  /\ shouldUseFallback(action, keyType)
                  /\ audioContext # 0
  IN
  /\ audioBuffers' =
       IF fallback
       THEN [audioBuffers EXCEPT ![BufferKey(action, keyType)] =
                                   audioBuffers[BufferKey(action, "generic")]]
       ELSE audioBuffers
  /\ loadingStats' =
       [loadingStats EXCEPT !.failedFiles = @ + 1,
                            !.loadedFiles = IF fallback THEN @ + 1 ELSE @]

\* loadSoundBuffer after its await: both maps get the decoded buffer
StoreBuffer(n) == [audioBuffers EXCEPT ![CatalogSeq[n]] = CatalogSeq[n]]

\* The fetch and decode of load n of batch i complete before its timeout.  With
\* this.audioContext null the store throws and the load ends in the catch block.
LoadSucceeds(i, n) ==
  /\ loads[i][n] = "pending"
  /\ IF audioContext = 0
     THEN /\ LoadCatch(n)
          /\ loads' = [loads EXCEPT ![i][n] = "failed"]
     ELSE /\ audioBuffers' = StoreBuffer(n)
          /\ loadingStats' = [loadingStats EXCEPT !.loadedFiles = @ + 1]
          /\ loads' = [loads EXCEPT ![i][n] = "loaded"]
  /\ UNCHANGED <<volumeVars, gainVars, contextVars, initVars, soundVars, callVars, ret>>
  /\ UNCHANGED workerVars

\* The fetch or the decode of load n of batch i fails before its timeout
LoadFails(i, n) ==
  /\ loads[i][n] = "pending"
  /\ LoadCatch(n)
  /\ loads' = [loads EXCEPT ![i][n] = "failed"]
  /\ UNCHANGED <<volumeVars, gainVars, contextVars, initVars, soundVars, callVars, ret>>
  /\ UNCHANGED workerVars

TimedOut(i) == {n \in CatalogIdx : loads[i][n] \in {"timedout", "late"}}

\* LoadTimeout whose timer is not part of the race: it fires and rejects nothing
LoadTimeoutUnraced(i, n) ==
  /\ loads[i][n] = "pending"
  /\ \A m \in CatalogIdx : m < n => loads[i][m] # "pending"
  /\ UNCHANGED vars

\* The timer of load n of batch i fires while the load is pending.  The timers of
\* a batch are set in catalog order with one delay, so they fire in that order.
LoadTimeout(i, n) ==
  /\ loads[i][n] = "pending"
  /\ \A m \in CatalogIdx : m < n => loads[i][m] # "pending"
  /\ LoadCatch(n)
  /\ loads' = [loads EXCEPT ![i][n] = "timedout"]
  /\ UNCHANGED <<volumeVars, gainVars, contextVars, initVars, soundVars, callVars, ret>>
  /\ UNCHANGED workerVars

\* The fetch and decode of a load that has timed out complete: loadSoundBuffer
\* still stores the buffer (nothing cancels it); with this.audioContext null it throws
LoadCompletesLate(i, n) ==
  /\ loads[i][n] = "timedout"
  /\ audioBuffers' = IF audioContext = 0 THEN audioBuffers ELSE StoreBuffer(n)
  /\ loads' = [loads EXCEPT ![i][n] = "late"]
  /\ UNCHANGED <<loadingStats, volumeVars, gainVars, contextVars, initVars, soundVars,
                 callVars, ret>>
  /\ UNCHANGED workerVars

\* Promise.allSettled of batch i resolves: preloadSounds checks loadedFiles and
\* initialize sets isInitialized, or rethrows 'Failed to load any audio files'
PreloadSettled(i) ==
  /\ initPc[i] = "preload"
  /\ \A n \in CatalogIdx : loads[i][n] \in Settled
  /\ IF loadingStats.loadedFiles = 0
     THEN /\ initPc' = [initPc EXCEPT ![i] = "rejected"]
          /\ ret' = [op |-> "initialize", val |-> "NoBuffersLoaded"]
          /\ isInitialized' = isInitialized
     ELSE /\ initPc' = [initPc EXCEPT ![i] = "resolved"]
          /\ ret' = [op |-> "initialize", val |-> "resolved"]
          /\ isInitialized' = TRUE
  /\ UNCHANGED <<preloadingPromise, initWait, volumeVars, gainVars, contextVars,
                 loadVars, soundVars, callVars>>
  /\ UNCHANGED workerVars

\* isReady()
isReady ==
  LET hasContext == isInitialized /\ audioContext # 0
      hasBuffers == \E k \in BufferKeys : audioBuffers[k] # NoBuffer
      preloadingComplete == preloadingPromise = 0 \/ loadingStats.loadedFiles > 0
  IN hasContext /\ hasBuffers /\ preloadingComplete

\* Array.from(this.audioBuffers.keys()) of getPreloadingStats()
loadedBuffers == {k \in BufferKeys : audioBuffers[k] # NoBuffer}

(***************************************************************************)
(* stopAllSounds() and destroy()                                           *)
(***************************************************************************)
\* stopAllSounds(): the stopped sources still deliver onended later
StopAllSounds ==
  /\ activeSourceNodes' = {}
  /\ concurrentSoundsCount' = 0
  /\ ret' = [op |-> "stopAllSounds", val |-> "void"]
  /\ UNCHANGED <<sources, gainNodePool, volumeVars, gainVars, contextVars, loadVars,
                 initVars, callVars>>
  /\ UNCHANGED workerVars

\* The fields of the manager and what the platform still holds for it
Fields ==
  [audioContext |-> audioContext, ctxState |-> ctxState,
   isInitialized |-> isInitialized, preloadingPromise |-> preloadingPromise,
   masterGainNode |-> masterGainNode, masterGain |-> masterGain,
   rampTarget |-> rampTarget, activeSourceNodes |-> activeSourceNodes,
   sources |-> sources, audioBuffers |-> audioBuffers,
   loadingStats |-> loadingStats, currentVolume |-> currentVolume,
   isMuted |-> isMuted, volumeBeforeMute |-> volumeBeforeMute,
   gainNodePool |-> gainNodePool, concurrentSoundsCount |-> concurrentSoundsCount,
   initPc |-> initPc, initWait |-> initWait, loads |-> loads,
   playCalls |-> playCalls, nPlay |-> nPlay]

\* destroy whose counter reset counts the sources it has just stopped
destroyCountingStopped(st) ==
  [st EXCEPT !.concurrentSoundsCount = Cardinality(st.activeSourceNodes),
             !.activeSourceNodes = {},
             !.ctxState = IF st.audioContext # 0
                          THEN [st.ctxState EXCEPT ![st.audioContext] = "closed"]
                          ELSE st.ctxState,
             !.audioBuffers = [k \in BufferKeys |-> NoBuffer],
             !.gainNodePool = <<>>,
             !.audioContext = 0, !.masterGainNode = 0, !.masterGain = 0,
             !.rampTarget = -1, !.isInitialized = FALSE,
             !.preloadingPromise = 0, !.loadingStats = ZeroStats,
             !.currentVolume = DEFAULT_VOLUME, !.isMuted = FALSE,
             !.volumeBeforeMute = DEFAULT_VOLUME]

\* destroy() as a function of the fields it is called on
destroy(st) ==
  [st EXCEPT !.activeSourceNodes = {},
             !.concurrentSoundsCount = 0,
             !.ctxState = IF st.audioContext # 0
                          THEN [st.ctxState EXCEPT ![st.audioContext] = "closed"]
                          ELSE st.ctxState,
             !.audioBuffers = [k \in BufferKeys |-> NoBuffer],
             !.gainNodePool = <<>>,
             !.audioContext = 0, !.masterGainNode = 0, !.masterGain = 0,
             !.rampTarget = -1, !.isInitialized = FALSE,
             !.preloadingPromise = 0, !.loadingStats = ZeroStats,
             !.currentVolume = DEFAULT_VOLUME, !.isMuted = FALSE,
             !.volumeBeforeMute = DEFAULT_VOLUME]

\* Destroy leaving the gain-node pool as it finds it
DestroyKeepingPool ==
  /\ activeSourceNodes' = {}
  /\ ctxState' = IF audioContext # 0
                 THEN [ctxState EXCEPT ![audioContext] = "closed"]
                 ELSE ctxState
  /\ audioBuffers' = [k \in BufferKeys |-> NoBuffer]
  /\ gainNodePool' = gainNodePool
  /\ audioContext' = 0
  /\ masterGainNode' = 0
  /\ masterGain' = 0
  /\ rampTarget' = -1
  /\ isInitialized' = FALSE
  /\ preloadingPromise' = 0
  /\ loadingStats' = ZeroStats
  /\ currentVolume' = DEFAULT_VOLUME
  /\ isMuted' = FALSE
  /\ volumeBeforeMute' = DEFAULT_VOLUME
  /\ concurrentSoundsCount' = 0
  /\ ret' = [op |-> "destroy", val |-> "void"]
  /\ UNCHANGED <<sources, loads, initPc, initWait, callVars>>
  /\ UNCHANGED workerVars

\* destroy()
Destroy ==
  /\ activeSourceNodes' = {}
  /\ ctxState' = IF audioContext # 0
                 THEN [ctxState EXCEPT ![audioContext] = "closed"]
                 ELSE ctxState
  /\ audioBuffers' = [k \in BufferKeys |-> NoBuffer]
  /\ gainNodePool' = <<>>
  /\ audioContext' = 0
  /\ masterGainNode' = 0
  /\ masterGain' = 0
  /\ rampTarget' = -1
  /\ isInitialized' = FALSE
  /\ preloadingPromise' = 0
  /\ loadingStats' = ZeroStats
  /\ currentVolume' = DEFAULT_VOLUME
  /\ isMuted' = FALSE
  /\ volumeBeforeMute' = DEFAULT_VOLUME
  /\ concurrentSoundsCount' = 0
  /\ ret' = [op |-> "destroy", val |-> "void"]
  /\ UNCHANGED <<sources, loads, initPc, initWait, callVars>>
  /\ UNCHANGED workerVars

(***************************************************************************)
(* playKeySound()                                                          *)
(***************************************************************************)
\* acquireGainNode() on pool, run with this.audioContext = ctx # 0: the node it returns
acquireGainNode(pool, used, ctx) ==
  IF Len(pool) > 0 THEN Head(pool) ELSE NewGainNode(ctx, used)

\* acquireGainNode() without its gainNodePool.delete(gainNode)
PoolAfterAcquireKeeping(pool) == pool

\* the pool acquireGainNode() leaves
PoolAfterAcquire(pool) == IF Len(pool) > 0 THEN Tail(pool) ELSE pool

\* createBufferSource(): a source no pending onended names, numbered after the
\* sources started before it
NewSourceId ==
  IF sources = {} THEN 1
  ELSE 1 + (CHOOSE n \in {s.id : s \in sources} : \A s \in sources : s.id <= n)

\* connect() throws when the two nodes belong to different contexts
ConnectThrows(sg, kg) ==
  \/ sg[1] # audioContext
  \/ kg[1] # sg[1]
  \/ masterGainNode # kg[1]

\* playKeySound from the buffer lookup to its end, the suspended calls being rest
PlayBody(call, rest) ==
  LET buffer == audioBuffers[BufferKey(call.action, call.keyType)]
      sg == acquireGainNode(gainNodePool, LiveNodes, audioContext)
      pool1 == PoolAfterAcquire(gainNodePool)
      kg == acquireGainNode(pool1, LiveNodes \cup {sg}, audioContext)
      pool2 == PoolAfterAcquire(pool1)
      id == NewSourceId
  IN
  /\ playCalls' = rest
  /\ IF buffer = NoBuffer
     THEN \* with this.audioContext null the lookup in audioContext.buffers throws
          /\ ret' = [op |-> "playKeySound",
                     val |-> IF audioContext = 0 THEN "rejected" ELSE "nobuffer"]
          /\ UNCHANGED soundVars
     ELSE IF audioContext = 0
     THEN \* createBufferSource throws inside the try: caught
          /\ ret' = [op |-> "playKeySound", val |-> "failed"]
          /\ UNCHANGED soundVars
     ELSE IF ConnectThrows(sg, kg)
     THEN \* caught: the two acquired nodes are not released
          /\ gainNodePool' = pool2
          /\ ret' = [op |-> "playKeySound", val |-> "failed"]
          /\ UNCHANGED <<activeSourceNodes, sources, concurrentSoundsCount>>
     ELSE /\ gainNodePool' = pool2
          /\ sources' = sources \cup {[id |-> id, sg |-> sg, kg |-> kg]}
          /\ activeSourceNodes' = activeSourceNodes \cup {id}
          /\ concurrentSoundsCount' = concurrentSoundsCount + 1
          /\ ret' = [op |-> "playKeySound", val |-> "started"]

\* playKeySound from the resume check on, the suspended calls being rest
PlayAfterPreload(call, rest) ==
  IF audioContext = 0
  THEN \* this.audioContext.context on null: the promise rejects
       /\ playCalls' = rest
       /\ ret' = [op |-> "playKeySound", val |-> "rejected"]
       /\ UNCHANGED soundVars
  ELSE IF ctxState[audioContext] = "suspended"
  THEN /\ playCalls' = rest (+) SetToBag({[call EXCEPT !.pc = "resume",
                                                       !.wait = audioContext]})
       /\ UNCHANGED <<soundVars, ret>>
  ELSE PlayBody(call, rest)

\* what lets a playKeySound call past its three guards
CanPlay ==
  /\ isInitialized /\ audioContext # 0 /\ masterGainNode # 0
  /\ ~isMuted
  /\ canPlayConcurrentSound

\* playKeySound(keyType, action) up to its first await
PlayKeySound(keyType, action) ==
  LET call == [pc |-> "preload", keyType |-> keyType, action |-> action,
               wait |-> preloadingPromise]
  IN
  /\ CanPlay
  /\ nPlay' = nPlay + 1
  /\ IF preloadingPromise # 0
     THEN /\ playCalls' = playCalls (+) SetToBag({call})
          /\ UNCHANGED <<soundVars, ret>>
     ELSE PlayAfterPreload(call, playCalls)
  /\ UNCHANGED <<volumeVars, gainVars, contextVars, loadVars, initVars>>
  /\ UNCHANGED workerVars

\* PlayKeySoundSkipped counting the skipped call as a concurrent sound
PlayKeySoundSkippedCounting ==
  /\ ~CanPlay
  /\ nPlay' = nPlay + 1
  /\ concurrentSoundsCount' = concurrentSoundsCount + 1
  /\ ret' = [op |-> "playKeySound", val |-> "skipped"]
  /\ UNCHANGED <<playCalls, volumeVars, gainVars, contextVars, loadVars, initVars,
                 activeSourceNodes, sources, gainNodePool>>
  /\ UNCHANGED workerVars

\* playKeySound stopped by one of its guards: it returns at once
PlayKeySoundSkipped ==
  /\ ~CanPlay
  /\ nPlay' = nPlay + 1
  /\ ret' = [op |-> "playKeySound", val |-> "skipped"]
  /\ UNCHANGED <<playCalls, volumeVars, gainVars, contextVars, loadVars, initVars,
                 soundVars>>
  /\ UNCHANGED workerVars

\* The preloading promise a suspended call awaits has resolved
PlayPreloadResolved(call) ==
  /\ BagIn(call, playCalls)
  /\ call.pc = "preload"
  /\ initPc[call.wait] \in {"resolved", "rejected"}
  /\ PlayAfterPreload(call, playCalls (-) SetToBag({call}))
  /\ UNCHANGED <<nPlay, volumeVars, gainVars, contextVars, loadVars, initVars>>
  /\ UNCHANGED workerVars

\* The resume() a suspended call awaits resolves
PlayResumeResolves(call) ==
  /\ BagIn(call, playCalls)
  /\ call.pc = "resume"
  /\ ctxState[call.wait] \in {"suspended", "running"}
  /\ ctxState' = [ctxState EXCEPT ![call.wait] = "running"]
  /\ PlayBody(call, playCalls (-) SetToBag({call}))
  /\ UNCHANGED <<nPlay, audioContext, volumeVars, gainVars, loadVars, initVars>>
  /\ UNCHANGED workerVars

\* PlayResumeRejects counting the abandoned call as a concurrent sound
PlayResumeRejectsCounting(call) ==
  /\ BagIn(call, playCalls)
  /\ call.pc = "resume"
  /\ playCalls' = playCalls (-) SetToBag({call})
  /\ concurrentSoundsCount' = concurrentSoundsCount + 1
  /\ ret' = [op |-> "playKeySound", val |-> "resumeFailed"]
  /\ UNCHANGED <<nPlay, activeSourceNodes, sources, gainNodePool, volumeVars,
                 gainVars, contextVars, loadVars, initVars>>
  /\ UNCHANGED workerVars

\* The resume() a suspended call awaits rejects: logged, the call returns
PlayResumeRejects(call) ==
  /\ BagIn(call, playCalls)
  /\ call.pc = "resume"
  /\ playCalls' = playCalls (-) SetToBag({call})
  /\ ret' = [op |-> "playKeySound", val |-> "resumeFailed"]
  /\ UNCHANGED <<nPlay, soundVars, volumeVars, gainVars, contextVars, loadVars,
                 initVars>>
  /\ UNCHANGED workerVars

\* The platform suspends the running context (the state line 358 tests for)
ContextSuspends ==
  /\ audioContext # 0
  /\ ctxState[audioContext] = "running"
  /\ ctxState' = [ctxState EXCEPT ![audioContext] = "suspended"]
  /\ UNCHANGED <<audioContext, volumeVars, gainVars, loadVars, initVars, soundVars,
                 callVars, ret>>
  /\ UNCHANGED workerVars

\* SourceEnded without the call of decrementConcurrentSounds()
SourceEndedKeepingCount(s) ==
  /\ s \in sources
  /\ sources' = sources \ {s}
  /\ activeSourceNodes' = activeSourceNodes \ {s.id}
  /\ concurrentSoundsCount' = concurrentSoundsCount
  /\ gainNodePool' = releaseGainNode(releaseGainNode(gainNodePool, s.sg), s.kg)
  /\ UNCHANGED <<volumeVars, gainVars, contextVars, loadVars, initVars, callVars, ret>>
  /\ UNCHANGED workerVars

\* source.onended of a started source
SourceEnded(s) ==
  /\ s \in sources
  /\ sources' = sources \ {s}
  /\ activeSourceNodes' = activeSourceNodes \ {s.id}
  /\ concurrentSoundsCount' = decrementConcurrentSounds(concurrentSoundsCount)
  /\ gainNodePool' = releaseGainNode(releaseGainNode(gainNodePool, s.sg), s.kg)
  /\ UNCHANGED <<volumeVars, gainVars, contextVars, loadVars, initVars, callVars, ret>>
  /\ UNCHANGED workerVars

(***************************************************************************)
(* The service worker: injection of the content script                     *)
(***************************************************************************)
\* injectIntoTab calls issued
MaxInject == 4

\* the filter of injectIntoExistingTabs and of the onUpdated listener
HttpTab(t) == TabUrl[t] \in {"http://", "https://"}

\* The properties the bootstrap of content-script.js defines on window: the
\* instance is a block-scoped const and nothing is assigned to window
ContentScriptGlobals == {}

\* the own properties of the window of tab t that the extension has defined
WindowProperties(t) == IF tabScripts[t] > 0 THEN ContentScriptGlobals ELSE {}

\* injectIntoTab(tabId) for every tab of ts, each up to its first await
InjectIntoTabs(ts) ==
  /\ injectCalls' = injectCalls (+) SetToBag({[tabId |-> t, pc |-> "check"] : t \in ts})
  /\ nInject' = nInject + Cardinality(ts)

\* injectIntoExistingTabs() up to its Promise.allSettled
injectIntoExistingTabs == InjectIntoTabs({t \in TabIds : HttpTab(t)})

\* chrome.runtime.onInstalled: on install the settings are reset first
OnInstalled(reason) ==
  /\ storageSettings' = IF reason = "install" THEN DEFAULT_SETTINGS ELSE storageSettings
  /\ injectIntoExistingTabs
  /\ UNCHANGED <<commandCalls, tabScripts, managerVars, ret>>

\* chrome.runtime.onStartup
OnStartup ==
  /\ injectIntoExistingTabs
  /\ UNCHANGED <<storageSettings, commandCalls, tabScripts, managerVars, ret>>

\* chrome.tabs.onUpdated for tab t: only a completely loaded http(s) tab is injected
TabUpdated(t, status) ==
  /\ status = "complete"
  /\ HttpTab(t)
  /\ InjectIntoTabs({t})
  /\ UNCHANGED <<storageSettings, commandCalls, tabScripts, managerVars, ret>>

InjectCalls == BagToSet(injectCalls)

\* The executeScript of the already-injected check resolves: the call goes on
\* to inject unless the window has the property
InjectCheckResolves(call) ==
  LET rest == injectCalls (-) SetToBag({call})
      result == "thockifyContentScript" \in WindowProperties(call.tabId)
  IN
  /\ BagIn(call, injectCalls)
  /\ call.pc = "check"
  /\ injectCalls' = IF result THEN rest
                    ELSE rest (+) SetToBag({[call EXCEPT !.pc = "inject"]})
  /\ UNCHANGED <<nInject, storageSettings, commandCalls, tabScripts, managerVars, ret>>

\* The executeScript of content-script.js resolves: the script has run in the page
InjectFilesResolves(call) ==
  /\ BagIn(call, injectCalls)
  /\ call.pc = "inject"
  /\ injectCalls' = injectCalls (-) SetToBag({call})
  /\ tabScripts' = [tabScripts EXCEPT ![call.tabId] = @ + 1]
  /\ UNCHANGED <<nInject, storageSettings, commandCalls, managerVars, ret>>

\* An executeScript of the call rejects: caught and logged, nothing is injected
InjectRejects(call) ==
  /\ BagIn(call, injectCalls)
  /\ injectCalls' = injectCalls (-) SetToBag({call})
  /\ UNCHANGED <<nInject, storageSettings, commandCalls, tabScripts, managerVars, ret>>

(***************************************************************************)
(* The service worker: keyboard commands                                   *)
(***************************************************************************)
CommandNames == {"toggle-extension", "volume-up", "volume-down", "toggle-mute"}

\* The onCommand listener up to its await: getSettings() has issued its read of
\* the storage, which the call holds as settings
OnCommand(command) ==
  /\ command \in CommandNames
  /\ commandCalls' = commandCalls (+)
                       SetToBag({[command |-> command, settings |-> storageSettings]})
  /\ UNCHANGED <<storageSettings, tabScripts, injectCalls, nInject, managerVars, ret>>

\* what the switch of the onCommand listener stores, from the settings it read
CommandResult(command, settings) ==
  CASE command = "toggle-extension" ->
         [storageSettings EXCEPT !.enabled = ~settings.enabled]
    [] command = "volume-up" ->
         [storageSettings EXCEPT !.volume = Min(VOLUME_ONE, settings.volume + 1)]
    [] command = "volume-down" ->
         [storageSettings EXCEPT !.volume = Max(0, settings.volume - 1)]
    [] command = "toggle-mute" ->
         [storageSettings EXCEPT !.volume =
            IF settings.volume > 0 THEN 0
            ELSE IF settings.lastVolume = 0 THEN 5 ELSE settings.lastVolume]

CommandCalls == BagToSet(commandCalls)

\* The listener resumes with the settings and setSetting() stores the new value
CommandSetSetting(call) ==
  /\ BagIn(call, commandCalls)
  /\ commandCalls' = commandCalls (-) SetToBag({call})
  /\ storageSettings' = CommandResult(call.command, call.settings)
  /\ ret' = [op |-> "onCommand", val |-> call.command,
             read |-> call.settings.volume, wrote |-> storageSettings'.volume]
  /\ UNCHANGED <<tabScripts, injectCalls, nInject, managerVars>>

(***************************************************************************)
(* The manager and the service worker with every method and event        *)
(***************************************************************************)
\* setVolume arguments: below 0, 0, inside (0,1), above 1
VolumeArgs == {-3, 0, 7, 12}

\* rampTimeMs arguments: none, and VOLUME_FADE_DURATION * 1000
RampArgs == {0, 100}

Calls == BagToSet(playCalls)

Next ==
  \/ \E v \in VolumeArgs, r \in RampArgs : SetVolume(v, r)
  \/ \E v \in VolumeArgs : FadeVolume(v, 100)
  \/ ToggleMute
  \/ \E m \in BOOLEAN : SetMute(m)
  \/ RampComplete
  \/ \E i \in InitIds, c \in {"suspended", "running"} : Initialize(i, c)
  \/ \E i \in InitIds : InitializeUnavailable(i)
  \/ InitializeNoop
  \/ \E i \in InitIds : InitResumeResolves(i)
  \/ \E i \in InitIds : InitResumeRejects(i)
  \/ \E i \in InitIds, n \in CatalogIdx : LoadSucceeds(i, n)
  \/ \E i \in InitIds, n \in CatalogIdx : LoadFails(i, n)
  \/ \E i \in InitIds, n \in CatalogIdx :
       Cardinality(TimedOut(i)) < MaxTimeouts /\ LoadTimeout(i, n)
  \/ \E i \in InitIds, n \in CatalogIdx : LoadCompletesLate(i, n)
  \/ \E i \in InitIds : PreloadSettled(i)
  \/ \E k \in KeyTypes, a \in SoundActions : nPlay < MaxPlay /\ PlayKeySound(k, a)
  \/ nPlay < MaxPlay /\ PlayKeySoundSkipped
  \/ \E call \in Calls : PlayPreloadResolved(call)
  \/ \E call \in Calls : PlayResumeResolves(call)
  \/ \E call \in Calls : PlayResumeRejects(call)
  \/ \E s \in sources : SourceEnded(s)
  \/ ContextSuspends
  \/ StopAllSounds
  \/ Destroy
  \/ \E reason \in {"install", "update"} :
       nInject < MaxInject /\ OnInstalled(reason)
  \/ nInject < MaxInject /\ OnStartup
  \/ \E t \in TabIds, status \in {"loading", "complete"} :
       nInject < MaxInject /\ TabUpdated(t, status)
  \/ \E call \in InjectCalls : InjectCheckResolves(call)
  \/ \E call \in InjectCalls : InjectFilesResolves(call)
  \/ \E call \in InjectCalls : InjectRejects(call)
  \/ \E command \in CommandNames : commandCalls = EmptyBag /\ OnCommand(command)
  \/ \E call \in CommandCalls : CommandSetSetting(call)

Spec == Init /\ [][Next]_vars

(***************************************************************************)
(* Environments.  Each specification below runs the actions above under a  *)
(* schedule of the host's calls and of the platform's events that keeps    *)
(* the state space finite and small; every behaviour of it is a behaviour  *)
(* of Spec.                                                                *)
(***************************************************************************)
\* load n is the first load of batch i that is still pending
FirstPending(i, n) ==
  /\ loads[i][n] = "pending"
  /\ \A m \in CatalogIdx : m < n => loads[i][m] # "pending"

\* no initialize() call is suspended at an await
NoInitInFlight == \A i \in InitIds : initPc[i] \notin {"resume", "preload"}

\* initialize() calls of the volume environment: a first one and a retry
MaxInitVol == 2

\* Volume and mute: the host sets, fades and toggles the volume at any moment of
\* the life cycle initialize / failed initialize / retry / destroy.  One
\* initialize() at a time, on a running context; the loads of a batch settle in
\* catalog order, all succeeding or all failing.
NextVol ==
  \/ \E v \in VolumeArgs : SetVolume(v, 0)
  \/ \E v \in {0, 7} : FadeVolume(v, 100)
  \/ ToggleMute
  \/ \E m \in BOOLEAN : SetMute(m)
  \/ RampComplete
  \/ \E i \in 1..MaxInitVol : NoInitInFlight /\ Initialize(i, "running")
  \/ \E i \in InitIds, n \in CatalogIdx :
       /\ FirstPending(i, n)
       /\ \A m \in CatalogIdx : loads[i][m] # "failed"
       /\ LoadSucceeds(i, n)
  \/ \E i \in InitIds, n \in CatalogIdx :
       /\ FirstPending(i, n)
       /\ \A m \in CatalogIdx : loads[i][m] # "loaded"
       /\ LoadFails(i, n)
  \/ \E i \in InitIds : PreloadSettled(i)
  \/ Destroy

SpecVol == Init /\ [][NextVol]_vars

(***************************************************************************)
(* Volume and mute: claims C6 - C10, under SpecVol                         *)
(***************************************************************************)
\* C6: mute round trip on an initialized manager.  setVolume(v) with v in (0,1]
\* leaves getVolume() = v, unmuted, master gain v; toggleMute() from an unmuted
\* volume v > 0 leaves the manager muted with gain 0 and v remembered;
\* toggleMute() from a muted manager that remembers v > 0 leaves getVolume() = v,
\* unmuted, master gain v.  Hence setVolume(v) followed by any number of
\* toggleMute() pairs ends with getVolume() = v, isMuted = false, gain = v.
C6_MuteRoundTrip ==
  [][ /\ \A v \in VolumeArgs :
           (isInitialized /\ 0 < v /\ v <= VOLUME_ONE /\ SetVolume(v, 0))
             => (getVolume' = v /\ ~isMuted' /\ masterGain' = v /\ isInitialized')
      /\ (isInitialized /\ ~isMuted /\ currentVolume > 0 /\ ToggleMute)
           => (isMuted' /\ masterGain' = 0 /\ volumeBeforeMute' = currentVolume
               /\ isInitialized')
      /\ (isInitialized /\ isMuted /\ volumeBeforeMute > 0 /\ ToggleMute)
           => (getVolume' = volumeBeforeMute /\ ~isMuted'
               /\ masterGain' = volumeBeforeMute /\ isInitialized')
    ]_vars

\* C6 witness: the second toggleMute() of a round trip at v = 0.7 has returned
\* false (unmuted) on an initialized manager
C6_Witness ==
  /\ isInitialized
  /\ ret = [op |-> "toggleMute", val |-> FALSE]
  /\ getVolume = 7 /\ masterGain = 7 /\ volumeBeforeMute = 7

\* C7: on an initialized, unmuted manager with volume v > 0, setVolume(0) mutes
\* and records v as volumeBeforeMute, and toggleMute() on a muted manager
\* restores the recorded volume (getVolume(), master gain, unmuted).
C7_SetVolumeZeroRecordsVolume ==
  [][ /\ (isInitialized /\ ~isMuted /\ currentVolume > 0 /\ SetVolume(0, 0))
           => (isMuted' /\ volumeBeforeMute' = currentVolume)
      /\ (isInitialized /\ isMuted /\ volumeBeforeMute > 0 /\ ToggleMute)
           => (getVolume' = volumeBeforeMute /\ ~isMuted'
               /\ masterGain' = volumeBeforeMute)
    ]_vars

\* C8: getVolume() is the volume last set through setVolume, clamped; muting an
\* initialized manager through toggleMute() or setMute(true) from a volume
\* v > 0 leaves getVolume() = v.
C8_GetVolumeIsNominal ==
  [][ /\ \A v \in VolumeArgs : SetVolume(v, 0) => getVolume' = Clamp(v)
      /\ (isInitialized /\ ~isMuted /\ currentVolume > 0
          /\ (ToggleMute \/ SetMute(TRUE)))
           => (isMuted' /\ getVolume' = getVolume)
    ]_vars

\* C9: in every reachable state toggleMute() inverts isMuted and returns the new
\* value of isMuted.
C9_ToggleMuteInverts ==
  [][ ToggleMute => (isMuted' = ~isMuted /\ ret'.val = isMuted') ]_vars

\* C10: whenever a master gain node exists and no ramp is pending, the master
\* gain is 0 if isMuted and currentVolume otherwise.
C10_EffectiveGain ==
  (masterGainNode # 0 /\ rampTarget = -1)
    => masterGain = (IF isMuted THEN 0 ELSE currentVolume)

\* C11: after any setVolume(v) call, in every reachable state, isMuted is true
\* exactly when the clamped value of v is 0.
C11_MutedIffZero ==
  [][ \A v \in VolumeArgs : SetVolume(v, 0) => (isMuted' <=> (Clamp(v) = 0)) ]_vars

\* C12: in every reachable state currentVolume and volumeBeforeMute lie in
\* [0,1], whatever setVolume (arguments below 0, inside, above 1), toggleMute,
\* setMute, fadeVolume and destroy calls were made.
C12_VolumesInUnitInterval ==
  /\ 0 <= currentVolume /\ currentVolume <= VOLUME_ONE
  /\ 0 <= volumeBeforeMute /\ volumeBeforeMute <= VOLUME_ONE

\* C12 witness: setVolume with an argument above 1 has returned and toggleMute()
\* has then copied the clamped volume into volumeBeforeMute
C12_Witness ==
  /\ ret = [op |-> "toggleMute", val |-> TRUE]
  /\ volumeBeforeMute = VOLUME_ONE
  /\ currentVolume = 0

(***************************************************************************)
(* Playback: claims C1 and C2                                              *)
(***************************************************************************)
\* key types the host plays in the playback environments
PlayKeyTypes == {"generic", "space"}

\* the one initialize() of an environment, on a running context, its loads
\* completing in catalog order
InitializeOnce ==
  \/ Initialize(1, "running")
  \/ \E n \in CatalogIdx : FirstPending(1, n) /\ LoadSucceeds(1, n)
  \/ PreloadSettled(1)

\* A burst: once initialize() has resolved the host issues playKeySound calls
\* without awaiting them, and no sound ends during the burst.
NextBurst ==
  \/ InitializeOnce
  \/ \E k \in PlayKeyTypes : nPlay < MaxPlay /\ PlayKeySound(k, "press")
  \/ isInitialized /\ nPlay < MaxPlay /\ PlayKeySoundSkipped
  \/ \E call \in Calls : PlayPreloadResolved(call)

SpecBurst == Init /\ [][NextBurst]_vars

\* the source started first among those whose onended has not run
Oldest(s) == s \in sources /\ \A t \in sources : s.id <= t.id

\* Overlapping playKeySound calls of one key, sounds ending, stopAllSounds() and
\* destroy(), in any interleaving.  The sounds play one buffer, so they end in
\* the order they started.
NextPlay ==
  \/ InitializeOnce
  \/ nPlay < MaxPlay /\ PlayKeySound("generic", "press")
  \/ nPlay < MaxPlay /\ PlayKeySoundSkipped
  \/ \E call \in Calls : PlayPreloadResolved(call)
  \/ \E s \in sources : Oldest(s) /\ SourceEnded(s)
  \/ StopAllSounds
  \/ Destroy

SpecPlay == Init /\ [][NextPlay]_vars

\* C1: in every reachable state the number of sources in activeSourceNodes
\* (started, not yet ended) is at most maxPoolSize, and so is the counter that
\* guards playKeySound.
C1_ActiveSourcesBounded ==
  /\ Cardinality(activeSourceNodes) <= maxPoolSize
  /\ concurrentSoundsCount <= maxPoolSize

\* C2: on an initialized, unmuted manager, once more than maxPoolSize
\* playKeySound calls have been issued and have all returned, no sound having
\* ended, exactly maxPoolSize sources are active and concurrentSoundsCount is
\* maxPoolSize.
C2_BurstLeavesExactlyMax ==
  (isInitialized /\ ~isMuted /\ nPlay > maxPoolSize /\ playCalls = EmptyBag)
    => /\ Cardinality(activeSourceNodes) = maxPoolSize
       /\ concurrentSoundsCount = maxPoolSize

(***************************************************************************)
(* Playback that starts nothing: claim C13                                 *)
(***************************************************************************)
\* One initialize() on a running context whose press assets load or fail, in
\* catalog order; the host plays press sounds at any moment, before, during and
\* after initialize(), without awaiting them, and toggles mute.
NextSkip ==
  \/ Initialize(1, "running")
  \/ \E n \in CatalogIdx : FirstPending(1, n) /\ LoadSucceeds(1, n)
  \/ \E n \in CatalogIdx :
       FirstPending(1, n) /\ CatalogSeq[n][1] = "press" /\ LoadFails(1, n)
  \/ PreloadSettled(1)
  \/ \E k \in PlayKeyTypes : nPlay < MaxPlay /\ PlayKeySound(k, "press")
  \/ nPlay < MaxPlay /\ PlayKeySoundSkipped
  \/ \E call \in Calls : PlayPreloadResolved(call)
  \/ ToggleMute

SpecSkip == Init /\ [][NextSkip]_vars

\* what claim C13 says a call that starts nothing leaves alone
SkipFrame ==
  UNCHANGED <<activeSourceNodes, concurrentSoundsCount, gainNodePool, audioBuffers,
              volumeVars>>

\* the call reaches the buffer lookup of line 368 and finds nothing
FindsNoBuffer(call) ==
  /\ audioContext # 0
  /\ ctxState[audioContext] # "suspended"
  /\ audioBuffers[BufferKey(call.action, call.keyType)] = NoBuffer

\* C13: a playKeySound call that returns at one of its guards (not initialized,
\* muted, limit reached) or at the buffer lookup (no buffer under
\* action:keyType) returns without raising and leaves activeSourceNodes,
\* concurrentSoundsCount, gainNodePool, audioBuffers and the volume state
\* unchanged.
C13_SkippedCallChangesNothing ==
  [][ /\ PlayKeySoundSkipped
           => (SkipFrame /\ ret' = [op |-> "playKeySound", val |-> "skipped"])
      /\ \A call \in Calls :
           (FindsNoBuffer(call) /\ PlayPreloadResolved(call))
             => (SkipFrame /\ ret' = [op |-> "playKeySound", val |-> "nobuffer"])
    ]_vars

\* C13 witness: on an initialized manager with sounds playing, a call for a key
\* without a buffer has returned at the buffer lookup
C13_Witness ==
  /\ isInitialized
  /\ ret = [op |-> "playKeySound", val |-> "nobuffer"]
  /\ activeSourceNodes # {}

(***************************************************************************)
(* Playback against mute and against a suspended context: C14, C15         *)
(***************************************************************************)
\* playKeySound calls of the two environments below
MaxPlayFew == 3

\* Mute: after initialize() the host plays a key without awaiting the calls and
\* sets the volume, toggles and sets mute at any moment; sounds end.
NextMute ==
  \/ InitializeOnce
  \/ nPlay < MaxPlayFew /\ PlayKeySound("generic", "press")
  \/ nPlay < MaxPlayFew /\ PlayKeySoundSkipped
  \/ \E call \in Calls : PlayPreloadResolved(call)
  \/ \E s \in sources : Oldest(s) /\ SourceEnded(s)
  \/ \E v \in {0, 7} : SetVolume(v, 0)
  \/ ToggleMute
  \/ \E m \in BOOLEAN : SetMute(m)

SpecMute == Init /\ [][NextMute]_vars

\* C14: no source is started while isMuted is true: at every step that adds a
\* source to activeSourceNodes, isMuted is false.
C14_NoSourceStartedWhileMuted ==
  [][ (activeSourceNodes' \ activeSourceNodes # {}) => ~isMuted ]_vars

\* Suspended context: after initialize() the platform suspends the context at
\* any moment; the resume() a playKeySound call awaits resolves or rejects.
NextResume ==
  \/ InitializeOnce
  \/ ContextSuspends
  \/ nPlay < MaxPlayFew /\ PlayKeySound("generic", "press")
  \/ nPlay < MaxPlayFew /\ PlayKeySoundSkipped
  \/ \E call \in Calls : PlayPreloadResolved(call)
  \/ \E call \in Calls : PlayResumeResolves(call)
  \/ \E call \in Calls : PlayResumeRejects(call)
  \/ \E s \in sources : Oldest(s) /\ SourceEnded(s)

SpecResume == Init /\ [][NextResume]_vars

\* C15: when the resume() a playKeySound call awaits fails, the call returns
\* normally, starts no source and leaves activeSourceNodes,
\* concurrentSoundsCount and gainNodePool unchanged; it also leaves unchanged
\* everything the guards of a later call read, and once a resume() has
\* succeeded a call that reaches the buffer lookup starts a sound.
C15_ResumeFailureAbandonsCall ==
  [][ /\ \A call \in Calls :
           PlayResumeRejects(call)
             => /\ ret' = [op |-> "playKeySound", val |-> "resumeFailed"]
                /\ UNCHANGED <<activeSourceNodes, sources, concurrentSoundsCount,
                               gainNodePool>>
                /\ UNCHANGED <<isInitialized, audioContext, masterGainNode, isMuted>>
      /\ \A call \in Calls :
           PlayResumeResolves(call)
             => /\ ret' = [op |-> "playKeySound", val |-> "started"]
                /\ activeSourceNodes' \ activeSourceNodes # {}
    ]_vars

\* C15 witness: a call was abandoned because resume() failed, and the manager
\* would let the next call past its guards
C15_Witness ==
  /\ ret = [op |-> "playKeySound", val |-> "resumeFailed"]
  /\ CanPlay
  /\ ctxState[audioContext] = "suspended"

\* C16: playKeySound never raises to its caller: whatever happens while a call
\* is suspended, destroy() included, the promise it returned does not reject.
C16_PlayNeverRejects ==
  ~(ret.op = "playKeySound" /\ ret.val = "rejected")

(***************************************************************************)
(* Life cycle: destroy() and initialize() again, claims C17 - C20          *)
(***************************************************************************)
\* initialize() calls of the life-cycle environments: a first one and one after
\* destroy()
MaxInitLife == 2

\* playKeySound calls of the life-cycle environment
MaxPlayLife == 2

\* The host initializes a manager that holds no context (a fresh or a destroyed
\* one), calls initialize() again, plays a key, toggles mute and destroys the
\* manager at any moment, also with loads in flight and sounds playing.
\* Contexts are created running; the loads of a batch complete in catalog order
\* and those a destroy() has overtaken never complete.
NextLife ==
  \/ \E i \in 1..MaxInitLife : audioContext = 0 /\ Initialize(i, "running")
  \/ InitializeNoop
  \/ \E i \in InitIds, n \in CatalogIdx :
       audioContext = i /\ FirstPending(i, n) /\ LoadSucceeds(i, n)
  \/ \E i \in InitIds : PreloadSettled(i)
  \/ nPlay < MaxPlayLife /\ PlayKeySound("generic", "press")
  \/ \E call \in Calls : PlayPreloadResolved(call)
  \/ \E s \in sources : Oldest(s) /\ SourceEnded(s)
  \/ ToggleMute
  \/ Destroy

SpecLife == Init /\ [][NextLife]_vars

\* The same life cycle without sounds, the loads that a destroy() has overtaken
\* completing at any later moment.
NextReinit ==
  \/ \E i \in 1..MaxInitLife : audioContext = 0 /\ Initialize(i, "running")
  \/ \E i \in InitIds, n \in CatalogIdx : FirstPending(i, n) /\ LoadSucceeds(i, n)
  \/ \E i \in InitIds : PreloadSettled(i)
  \/ Destroy

SpecReinit == Init /\ [][NextReinit]_vars

\* C17: immediately after destroy() returns, from any state: activeSourceNodes,
\* gainNodePool and audioBuffers are empty, concurrentSoundsCount is 0,
\* audioContext and masterGainNode are null, isInitialized and isReady() are
\* false, loadingStats is all zero and the volume state is the default one.
C17_DestroyResetsEverything ==
  [][ Destroy
        => /\ activeSourceNodes' = {} /\ concurrentSoundsCount' = 0
           /\ gainNodePool' = <<>> /\ loadedBuffers' = {}
           /\ audioContext' = 0 /\ masterGainNode' = 0
           /\ ~isInitialized' /\ ~isReady'
           /\ loadingStats' = ZeroStats
           /\ currentVolume' = DEFAULT_VOLUME /\ ~isMuted'
           /\ volumeBeforeMute' = DEFAULT_VOLUME
           /\ ret' = [op |-> "destroy", val |-> "void"]
    ]_vars

\* C17 witness: destroy() has returned on an initialized manager whose sounds
\* were still playing
C17_Witness ==
  /\ ret = [op |-> "destroy", val |-> "void"]
  /\ sources # {}
  /\ \E i \in InitIds : initPc[i] = "resolved"

\* C18: destroy() raises no error on any state, and what it leaves is a fixed
\* point of destroy(): a second destroy() leaves exactly the state the first
\* one left.
C18_DestroyIdempotent ==
  [][ Destroy
        => /\ ret' = [op |-> "destroy", val |-> "void"]
           /\ Fields' = destroy(Fields)
           /\ destroy(Fields') = Fields'
    ]_vars

\* C18 witness: destroy() has returned on a manager that never was initialized
C18_Witness ==
  /\ ret = [op |-> "destroy", val |-> "void"]
  /\ \A i \in InitIds : initPc[i] = "idle"

\* getPreloadingStats() and isReady() after a first initialize() on a fresh
\* manager whose loads all succeed
FreshAllLoaded ==
  [isReady |-> TRUE, isComplete |-> FALSE,
   totalFiles |-> Len(CatalogSeq), loadedFiles |-> Len(CatalogSeq),
   failedFiles |-> 0, loadedBuffers |-> BufferKeys]

\* isReady() and getPreloadingStats() as the host observes them
Observed ==
  [isReady |-> isReady, isComplete |-> (preloadingPromise = 0),
   totalFiles |-> loadingStats.totalFiles, loadedFiles |-> loadingStats.loadedFiles,
   failedFiles |-> loadingStats.failedFiles, loadedBuffers |-> loadedBuffers]

\* C19: once an initialize() call has resolved with all its loads successful -
\* the first call on a fresh manager, or a call made after destroy() from any
\* state - isReady() and getPreloadingStats() are those of a first-time
\* initialize() with these load outcomes.
C19_ReinitializeLikeFresh ==
  \A i \in InitIds :
    ( /\ initPc[i] = "resolved" /\ audioContext = i
      /\ \A n \in CatalogIdx : loads[i][n] = "loaded" )
      => Observed = FreshAllLoaded

\* C20: initialize() on a manager whose isInitialized flag is true creates no
\* context, starts no loads and leaves audioContext, masterGainNode,
\* gainNodePool, audioBuffers, loadingStats and the volume state unchanged.
C20_InitializeAgainIsNoop ==
  [][ InitializeNoop
        => /\ ret' = [op |-> "initialize", val |-> "alreadyInitialized"]
           /\ UNCHANGED <<contextVars, gainVars, gainNodePool, loadVars, volumeVars,
                          initVars>>
    ]_vars

\* C20 witness: initialize() has returned early on a manager that a first
\* initialize() made ready and that was then muted
C20_Witness ==
  /\ ret = [op |-> "initialize", val |-> "alreadyInitialized"]
  /\ isReady
  /\ isMuted

(***************************************************************************)
(* Loading: claims C3, C4 and C5                                           *)
(***************************************************************************)
\* One initialize() on a running context; every load of its batch succeeds,
\* fails, times out or completes after its timeout, in any order the platform
\* can produce, at most MaxTimeouts loads of the batch timing out.
NextLoad ==
  \/ Initialize(1, "running")
  \/ \E n \in CatalogIdx : LoadSucceeds(1, n)
  \/ \E n \in CatalogIdx : LoadFails(1, n)
  \/ \E n \in CatalogIdx : Cardinality(TimedOut(1)) < MaxTimeouts /\ LoadTimeout(1, n)
  \/ \E n \in CatalogIdx : LoadCompletesLate(1, n)
  \/ PreloadSettled(1)

SpecLoad == Init /\ [][NextLoad]_vars

\* position of press:generic and of press:backspace in the catalog
PressGeneric == CHOOSE n \in CatalogIdx : CatalogSeq[n] = <<"press", "generic">>

PressBackspace == CHOOSE n \in CatalogIdx : CatalogSeq[n] = <<"press", "backspace">>

\* C3: after an initialize() in which the load of press:backspace failed (error
\* or timeout) and the load of press:generic succeeded, the buffer stored under
\* press:backspace - the one playKeySound('backspace','press') looks up - is the
\* generic press buffer, and loadedBuffers includes press:backspace.
C3_BackspaceFallsBackToGeneric ==
  ( /\ initPc[1] \in {"resolved", "rejected"}
    /\ loads[1][PressBackspace] \in {"failed", "timedout"}
    /\ loads[1][PressGeneric] = "loaded" )
    => /\ audioBuffers[BufferKey("press", "backspace")] = <<"press", "generic">>
       /\ BufferKey("press", "backspace") \in loadedBuffers

\* C4: after an initialize() in which every load of the catalog failed (error
\* or timeout), initialize() has rejected with the no-buffers error,
\* isInitialized is false and isReady() is false.
C4_AllLoadsFailRejects ==
  ( /\ initPc[1] \in {"resolved", "rejected"}
    /\ \A n \in CatalogIdx : loads[1][n] \in {"failed", "timedout", "late"} )
    => /\ ret = [op |-> "initialize", val |-> "NoBuffersLoaded"]
       /\ ~isInitialized
       /\ ~isReady

\* initialize() calls of the initialization environment
MaxInitOverlap == 2

\* Initialization: the host calls initialize() at any moment, also while an
\* earlier call is suspended; contexts are created running or suspended, and
\* the loads of a batch complete in catalog order.
NextInitialize ==
  \/ \E i \in 1..MaxInitOverlap, c \in {"suspended", "running"} : Initialize(i, c)
  \/ InitializeNoop
  \/ \E i \in InitIds : InitResumeResolves(i)
  \/ \E i \in InitIds, n \in CatalogIdx : FirstPending(i, n) /\ LoadSucceeds(i, n)
  \/ \E i \in InitIds : PreloadSettled(i)

SpecInit == Init /\ [][NextInitialize]_vars

\* C5: whenever a call to initialize() resolves, isReady() is true,
\* loadedFiles >= 1 and audioBuffers holds at least one buffer.  A call resolves
\* at the end of its preloading, in the step that sets isInitialized, or through
\* the early return, which the host can take in any state where isInitialized
\* is true: the three facts hold in every state where isInitialized is true.
C5_ResolvedMeansReady ==
  isInitialized
    => (isReady /\ loadingStats.loadedFiles >= 1 /\ loadedBuffers # {})

(***************************************************************************)
(* initialize() on a platform without audio output: claim C21              *)
(***************************************************************************)
\* The host calls initialize() at any moment, also while an earlier call is
\* suspended, and destroys the manager; creating the context fails or gives a
\* running or a suspended context, and the loads of the batch of the current
\* context complete in catalog order.
NextUnavailable ==
  \/ \E i \in 1..MaxInitOverlap : InitializeUnavailable(i)
  \/ \E i \in 1..MaxInitOverlap, c \in {"suspended", "running"} : Initialize(i, c)
  \/ InitializeNoop
  \/ \E i \in InitIds : InitResumeResolves(i)
  \/ \E i \in InitIds, n \in CatalogIdx :
       audioContext = i /\ FirstPending(i, n) /\ LoadSucceeds(i, n)
  \/ \E i \in InitIds : PreloadSettled(i)
  \/ Destroy

SpecUnavailable == Init /\ [][NextUnavailable]_vars

\* C21: when creating the audio context fails, initialize() rejects with the
\* audio-unavailable error, isInitialized and isReady() are false after it, and
\* the call starts no load: no load changes state and the statistics, the
\* preloading promise and the buffers are as before.
C21_UnavailableRejects ==
  [][ \A i \in InitIds :
        InitializeUnavailable(i)
          => /\ ret' = [op |-> "initialize", val |-> "AudioUnavailable"]
             /\ initPc'[i] = "rejected"
             /\ ~isInitialized' /\ ~isReady'
             /\ UNCHANGED <<loads, loadingStats, preloadingPromise, audioBuffers>>
    ]_vars

\* C21 witness: initialize() has rejected with the audio-unavailable error while
\* the batch of an earlier call was still loading
C21_Witness ==
  /\ ret = [op |-> "initialize", val |-> "AudioUnavailable"]
  /\ \E i \in InitIds : initPc[i] = "preload"
  /\ \E i \in InitIds : initPc[i] = "rejected"

(***************************************************************************)
(* Completion callbacks: claim C22                                         *)
(***************************************************************************)
\* playKeySound calls of the completion environment: one more than the five
\* sounds whose ten gain nodes fill the pool
MaxPlayEnd == 6

\* Overlapping playKeySound calls of one key, sounds ending in the order they
\* started, stopAllSounds() and destroy(), in any interleaving.
NextEnd ==
  \/ InitializeOnce
  \/ nPlay < MaxPlayEnd /\ PlayKeySound("generic", "press")
  \/ nPlay < MaxPlayEnd /\ PlayKeySoundSkipped
  \/ \E call \in Calls : PlayPreloadResolved(call)
  \/ \E s \in sources : Oldest(s) /\ SourceEnded(s)
  \/ StopAllSounds
  \/ Destroy

\* The platform delivers the onended event of every started source, and the
\* event loop runs the continuation of every call whose awaited promise has
\* settled.
SpecEnd ==
  /\ Init /\ [][NextEnd]_vars
  /\ WF_vars(\E s \in sources : Oldest(s) /\ SourceEnded(s))
  /\ WF_vars(\E call \in Calls : PlayPreloadResolved(call))

\* C22 as stated: the completion callback of a source removes it from
\* activeSourceNodes, decrements concurrentSoundsCount and returns its two gain
\* nodes to the pool.
C22_CallbackReleasesAll ==
  [][ \A s \in sources :
        SourceEnded(s)
          => /\ s.id \notin activeSourceNodes'
             /\ concurrentSoundsCount' = concurrentSoundsCount - 1
             /\ {s.sg, s.kg} \subseteq Range(gainNodePool')
    ]_vars

\* C22 amended: the completion callback of a source runs once; it removes the
\* source from activeSourceNodes, decrements concurrentSoundsCount unless it is
\* 0 already, and returns each of its gain nodes to the pool unless the pool
\* then holds maxPoolSize nodes; and, the completion events being delivered,
\* once no further playKeySound call is made activeSourceNodes is eventually
\* empty and concurrentSoundsCount eventually 0, for good.
C22_CallbackReleasesWithinBounds ==
  /\ [][ \A s \in sources :
          SourceEnded(s)
            => /\ s \notin sources'
               /\ s.id \notin activeSourceNodes'
               /\ concurrentSoundsCount' =
                    (IF concurrentSoundsCount = 0 THEN 0 ELSE concurrentSoundsCount - 1)
               /\ Range(gainNodePool) \subseteq Range(gainNodePool')
               /\ \A g \in {s.sg, s.kg} :
                    g \in Range(gainNodePool') \/ Len(gainNodePool') = maxPoolSize
      ]_vars
  /\ <>[](activeSourceNodes = {} /\ concurrentSoundsCount = 0)

\* C22 witness: six sounds were started and have all ended, the callbacks of the
\* first five having filled the pool before the sixth ran
C22_Witness ==
  /\ nPlay = MaxPlayEnd
  /\ playCalls = EmptyBag
  /\ sources = {}
  /\ Len(gainNodePool) = maxPoolSize
  /\ activeSourceNodes = {} /\ concurrentSoundsCount = 0

(***************************************************************************)
(* The gain-node pool: claims C23 and C24                                  *)
(***************************************************************************)
\* The host initializes the manager, retries after a failure and after
\* destroy(), plays a key without awaiting the calls, stops all sounds and
\* destroys the manager, in any interleaving; sounds end in any order.  One
\* initialize() at a time, on a running context; the loads of the batch of the
\* current context settle in catalog order, all succeeding or all failing.
NextPool ==
  \/ \E i \in 1..MaxInitLife : NoInitInFlight /\ Initialize(i, "running")
  \/ \E i \in InitIds, n \in CatalogIdx :
       /\ audioContext = i /\ FirstPending(i, n)
       /\ \A m \in CatalogIdx : loads[i][m] # "failed"
       /\ LoadSucceeds(i, n)
  \/ \E i \in InitIds, n \in CatalogIdx :
       /\ audioContext = i /\ FirstPending(i, n)
       /\ \A m \in CatalogIdx : loads[i][m] # "loaded"
       /\ LoadFails(i, n)
  \/ \E i \in InitIds : PreloadSettled(i)
  \/ nPlay < MaxPlayFew /\ PlayKeySound("generic", "press")
  \/ \E call \in Calls : PlayPreloadResolved(call)
  \/ \E s \in sources : SourceEnded(s)
  \/ StopAllSounds
  \/ Destroy

SpecPool == Init /\ [][NextPool]_vars

\* the gain nodes wired to source s
Wired(s) == {s.sg, s.kg}

\* C23: in every reachable state no gain node is both in gainNodePool and wired
\* to a source whose completion callback has not run (the active sources are
\* among these), and no gain node is wired to two such sources at once.
C23_GainNodeOwnership ==
  /\ \A s \in sources : Wired(s) \cap Range(gainNodePool) = {}
  /\ \A s \in sources, t \in sources : s # t => Wired(s) \cap Wired(t) = {}

\* C23 witness: a gain node that a completion callback returned to the pool is
\* wired to a later source while another source is active
C23_Witness ==
  /\ Cardinality(activeSourceNodes) >= 2
  /\ \E s \in sources, t \in sources :
       /\ s.id \in activeSourceNodes /\ t.id \in activeSourceNodes
       /\ s.id < t.id
       /\ t.kg[2] <= POOL_PRECREATE /\ t.kg[2] < s.sg[2]

\* initialize() calls of the retry environment: a first one and two retries
MaxInitPool == 3

\* The host initializes the manager and retries after every failure; once an
\* initialize() has resolved it plays a key without awaiting the calls, and the
\* sounds end in any order.  No stopAllSounds() and no destroy().
NextRetry ==
  \/ \E i \in 1..MaxInitPool : NoInitInFlight /\ Initialize(i, "running")
  \/ \E i \in InitIds, n \in CatalogIdx :
       /\ FirstPending(i, n)
       /\ \A m \in CatalogIdx : loads[i][m] # "failed"
       /\ LoadSucceeds(i, n)
  \/ \E i \in InitIds, n \in CatalogIdx :
       /\ FirstPending(i, n)
       /\ \A m \in CatalogIdx : loads[i][m] # "loaded"
       /\ LoadFails(i, n)
  \/ \E i \in InitIds : PreloadSettled(i)
  \/ \E k \in PlayKeyTypes : nPlay < MaxPlayFew /\ PlayKeySound(k, "press")
  \/ \E call \in Calls : PlayPreloadResolved(call)
  \/ \E s \in sources : SourceEnded(s)

SpecRetry == Init /\ [][NextRetry]_vars

\* C24: in every reachable state, after any sequence of initialize (successful,
\* failed, retried after failure), playKeySound, completion callbacks,
\* stopAllSounds and destroy, gainNodePool holds at most maxPoolSize nodes.
C24_PoolBounded ==
  Len(gainNodePool) <= maxPoolSize

(***************************************************************************)
(* Preloading terminates: claim C25                                        *)
(***************************************************************************)
\* One initialize() on a running context.  Each load of its batch completes,
\* fails, or hangs until its timer fires and never completes; any number of
\* loads may hang.
NextTimers ==
  \/ Initialize(1, "running")
  \/ \E n \in CatalogIdx : LoadSucceeds(1, n)
  \/ \E n \in CatalogIdx : LoadFails(1, n)
  \/ \E n \in CatalogIdx : LoadTimeout(1, n)
  \/ PreloadSettled(1)

\* Timers fire, and the continuation of preloadSounds() runs once
\* Promise.allSettled has resolved; nothing obliges a fetch to complete.
SpecTimers ==
  /\ Init /\ [][NextTimers]_vars
  /\ WF_vars(\E n \in CatalogIdx : LoadTimeout(1, n))
  /\ WF_vars(PreloadSettled(1))

\* C25: timers firing, every load that was started settles (success, failure or
\* timeout) and the preloading of initialize() settles, whichever fetches never
\* complete; and a load that completes before its timeout is recorded as loaded
\* (buffer stored, loadedFiles incremented) whatever state the other loads are
\* in.
C25_PreloadingTerminates ==
  /\ (initPc[1] = "preload") ~> (initPc[1] \in {"resolved", "rejected"})
  /\ [](initPc[1] \in {"resolved", "rejected"}
          => \A n \in CatalogIdx : loads[1][n] \in Settled)
  /\ [][ \A n \in CatalogIdx :
          LoadSucceeds(1, n)
            => /\ loads'[1][n] = "loaded"
               /\ audioBuffers'[CatalogSeq[n]] = CatalogSeq[n]
               /\ loadingStats'.loadedFiles = loadingStats.loadedFiles + 1
               /\ \A m \in CatalogIdx \ {n} : loads'[1][m] = loads[1][m]
      ]_vars

\* C25 witness: initialize() has resolved although the load of press:generic
\* hung until its timeout and never completed, another load failed, and the
\* others are recorded as loaded
C25_Witness ==
  /\ initPc[1] = "resolved"
  /\ loads[1][PressGeneric] = "timedout"
  /\ \E n \in CatalogIdx : loads[1][n] = "failed"
  /\ Cardinality({n \in CatalogIdx : loads[1][n] = "loaded"}) = loadingStats.loadedFiles
  /\ loadingStats.loadedFiles = Len(CatalogSeq) - 2

(***************************************************************************)
(* A load completing after its timeout: claim C26, under SpecLoad          *)
(***************************************************************************)
\* C26: the completion of a load that its timeout has already marked failed
\* changes neither audioBuffers nor loadingStats.
C26_LateCompletionHasNoEffect ==
  [][ \A n \in CatalogIdx :
        LoadCompletesLate(1, n) => UNCHANGED <<audioBuffers, loadingStats>>
    ]_vars

(***************************************************************************)
(* Ramps on the master gain: claim C27, under SpecVol                      *)
(***************************************************************************)
\* the gain setVolume(volume, ...) aims at, read after the call
TargetAfter(volume) == IF isMuted' THEN 0 ELSE Clamp(volume)

\* C27: after a setVolume(level, 0) call on a manager with a master gain node
\* the gain is the target and no ramp is pending on it, so that it stays there;
\* after a setVolume(level, rampMs > 0) or fadeVolume call the one pending ramp
\* is the one towards the latest target.
C27_NoEarlierRampPending ==
  [][ /\ \A v \in VolumeArgs :
           (masterGainNode # 0 /\ SetVolume(v, 0))
             => (masterGain' = TargetAfter(v) /\ rampTarget' = -1)
      /\ \A v \in VolumeArgs :
           (masterGainNode # 0 /\ FadeVolume(v, 100))
             => rampTarget' = TargetAfter(v)
    ]_vars

(***************************************************************************)
(* classifyKey (src/utils/audio-utils.ts, lines 18-39): claims C28, C29    *)
(* A string is the sequence of its characters.                             *)
(***************************************************************************)
UpperLetters ==
  << "A", "B", "C", "D", "E", "F", "G", "H", "I", "J", "K", "L", "M",
     "N", "O", "P", "Q", "R", "S", "T", "U", "V", "W", "X", "Y", "Z" >>

LowerLetters ==
  << "a", "b", "c", "d", "e", "f", "g", "h", "i", "j", "k", "l", "m",
     "n", "o", "p", "q", "r", "s", "t", "u", "v", "w", "x", "y", "z" >>

\* String.prototype.toLowerCase on one character
ToLowerChar(c) ==
  IF \E k \in 1..Len(UpperLetters) : UpperLetters[k] = c
  THEN LowerLetters[CHOOSE k \in 1..Len(UpperLetters) : UpperLetters[k] = c]
  ELSE c

\* toLowerCase left out: the string as the event carries it
ToLowerCaseOmitted(str) == str

\* String.prototype.toLowerCase
ToLowerCase(str) == [n \in 1..Len(str) |-> ToLowerChar(str[n])]

\* classifyKey without its final return: a key that matches nothing gets no type
classifyKeyNoCatchAll(eventKey, eventCode) ==
  LET key == ToLowerCase(eventKey)
      code == ToLowerCase(eventCode)
  IN
  IF key = <<" ">> \/ code = <<"s", "p", "a", "c", "e">> THEN "space"
  ELSE IF key = <<"e", "n", "t", "e", "r">> \/ code = <<"e", "n", "t", "e", "r">>
  THEN "enter"
  ELSE IF \/ key = <<"b", "a", "c", "k", "s", "p", "a", "c", "e">>
          \/ code = <<"b", "a", "c", "k", "s", "p", "a", "c", "e">>
  THEN "backspace"
  ELSE "undefined"

\* classifyKey(event), event.key and event.code being strings
classifyKey(eventKey, eventCode) ==
  LET key == ToLowerCase(eventKey)
      code == ToLowerCase(eventCode)
  IN
  IF key = <<" ">> \/ code = <<"s", "p", "a", "c", "e">> THEN "space"
  ELSE IF key = <<"e", "n", "t", "e", "r">> \/ code = <<"e", "n", "t", "e", "r">>
  THEN "enter"
  ELSE IF \/ key = <<"b", "a", "c", "k", "s", "p", "a", "c", "e">>
          \/ code = <<"b", "a", "c", "k", "s", "p", "a", "c", "e">>
  THEN "backspace"
  ELSE "generic"

\* values of event.key: " ", Enter, ENTER, Backspace, bAcKsPaCe, a, Shift,
\* Spacebar, Tab and the empty string
KeyInputs ==
  { <<" ">>,
    <<"E", "n", "t", "e", "r">>,
    <<"E", "N", "T", "E", "R">>,
    <<"B", "a", "c", "k", "s", "p", "a", "c", "e">>,
    <<"b", "A", "c", "K", "s", "P", "a", "C", "e">>,
    <<"a">>,
    <<"S", "h", "i", "f", "t">>,
    <<"S", "p", "a", "c", "e", "b", "a", "r">>,
    <<"T", "a", "b">>,
    <<>> }

\* values of event.code: Space, SPACE, Enter, enter, NumpadEnter, Backspace,
\* KeyA, ShiftLeft, Tab and the empty string
CodeInputs ==
  { <<"S", "p", "a", "c", "e">>,
    <<"S", "P", "A", "C", "E">>,
    <<"E", "n", "t", "e", "r">>,
    <<"e", "n", "t", "e", "r">>,
    <<"N", "u", "m", "p", "a", "d", "E", "n", "t", "e", "r">>,
    <<"B", "a", "c", "k", "s", "p", "a", "c", "e">>,
    <<"K", "e", "y", "A">>,
    <<"S", "h", "i", "f", "t", "L", "e", "f", "t">>,
    <<"T", "a", "b">>,
    <<>> }

\* A caller classifies a keyboard event
ClassifyKey(eventKey, eventCode) ==
  /\ ret' = [op |-> "classifyKey", val |-> classifyKey(eventKey, eventCode),
             key |-> eventKey, code |-> eventCode]
  /\ UNCHANGED <<volumeVars, gainVars, contextVars, loadVars, initVars, soundVars,
                 callVars>>
  /\ UNCHANGED workerVars

\* Keyboard events are classified at any moment, between the host's volume
\* calls on the manager.
NextKeys ==
  \/ \E eventKey \in KeyInputs, eventCode \in CodeInputs : ClassifyKey(eventKey, eventCode)
  \/ \E v \in {0, 7} : SetVolume(v, 0)
  \/ ToggleMute

SpecKeys == Init /\ [][NextKeys]_vars

\* a and b are the same string up to the case of their letters
EqualsIgnoringCase(a, b) ==
  /\ Len(a) = Len(b)
  /\ \A n \in 1..Len(a) :
       \/ a[n] = b[n]
       \/ \E k \in 1..Len(UpperLetters) :
            {a[n], b[n]} = {UpperLetters[k], LowerLetters[k]}

\* the category the priority order space > enter > backspace > generic gives
CategoryByPriority(eventKey, eventCode) ==
  IF eventKey = <<" ">> \/ EqualsIgnoringCase(eventCode, <<"s", "p", "a", "c", "e">>)
  THEN "space"
  ELSE IF \/ EqualsIgnoringCase(eventKey, <<"e", "n", "t", "e", "r">>)
          \/ EqualsIgnoringCase(eventCode, <<"e", "n", "t", "e", "r">>)
  THEN "enter"
  ELSE IF \/ EqualsIgnoringCase(eventKey, <<"b", "a", "c", "k", "s", "p", "a", "c", "e">>)
          \/ EqualsIgnoringCase(eventCode, <<"b", "a", "c", "k", "s", "p", "a", "c", "e">>)
  THEN "backspace"
  ELSE "generic"

C29_ClassifyKeyTotal ==
  [][ ret'.op = "classifyKey"
        => /\ ret'.val \in KeyTypes
           /\ UNCHANGED <<volumeVars, gainVars, contextVars, loadVars, initVars,
                          soundVars, callVars>>
    ]_vars

\* C29 witness: a key that matches none of the three special keys has been
\* classified, through the catch-all, on a manager whose volume was changed
C29_Witness ==
  /\ ret.op = "classifyKey"
  /\ ret.key = <<"T", "a", "b">> /\ ret.code = <<"T", "a", "b">>
  /\ ret.val = "generic"
  /\ currentVolume = 7

(***************************************************************************)
(* The content script's key handlers (src/content/content-script.ts,       *)
(* lines 116-174): claim C30                                               *)
(***************************************************************************)
\* this.settings when loadSettings() has stored nothing
NullSettings == [null |-> TRUE]

\* values of this.settings at the moment an event is handled; the handlers read
\* enabled and the two flags of audioSettings.  Disabled settings come with both
\* flags true.
SettingsInputs ==
  { NullSettings,
    [null |-> FALSE, enabled |-> FALSE, enableSpacebarSound |-> TRUE,
     enableEnterSound |-> TRUE] }
  \cup
  { [null |-> FALSE, enabled |-> TRUE, enableSpacebarSound |-> sp,
     enableEnterSound |-> en] : sp \in BOOLEAN, en \in BOOLEAN }

\* keyboard events: the space bar, the numeric-pad enter key, backspace and a
\* letter
EventInputs ==
  { [key |-> <<" ">>, code |-> <<"S", "p", "a", "c", "e">>],
    [key |-> <<"E", "n", "t", "e", "r">>,
     code |-> <<"N", "u", "m", "p", "a", "d", "E", "n", "t", "e", "r">>],
    [key |-> <<"B", "a", "c", "k", "s", "p", "a", "c", "e">>,
     code |-> <<"B", "a", "c", "k", "s", "p", "a", "c", "e">>],
    [key |-> <<"a">>, code |-> <<"K", "e", "y", "A">>] }

\* !this.settings?.enabled
SettingsDisabled(settings) == settings.null \/ ~settings.enabled

\* the key-specific checks of the two handlers
KeyTypeDisabled(keyType, settings) ==
  \/ keyType = "space" /\ ~settings.enableSpacebarSound
  \/ keyType = "enter" /\ ~settings.enableEnterSound

\* handleKeydown(event).  settings is this.settings, recent tells whether the
\* last keystroke is less than DEBOUNCE_DELAY old, modifier whether ctrlKey,
\* altKey or metaKey is set.  The last statement calls
\* this.audioManager.handleKeyDown(event, this.settings.volume).
HandleKeydown(event, settings, recent, modifier) ==
  LET keyType == classifyKey(event.key, event.code)
      returns == \/ SettingsDisabled(settings)
                 \/ ~isReady
                 \/ recent
                 \/ modifier
                 \/ KeyTypeDisabled(keyType, settings)
  IN
  /\ ret' = [op |-> "handleKeydown",
             val |-> IF returns THEN "returned" ELSE "handleKeyDown",
             keyType |-> keyType, settings |-> settings]
  /\ UNCHANGED <<volumeVars, gainVars, contextVars, loadVars, initVars, soundVars,
                 callVars>>
  /\ UNCHANGED workerVars

\* handleKeyup without the key-specific checks
HandleKeyupUnchecked(event, settings, modifier) ==
  LET keyType == classifyKey(event.key, event.code)
      returns == \/ SettingsDisabled(settings)
                 \/ ~isReady
                 \/ modifier
  IN
  /\ ret' = [op |-> "handleKeyup",
             val |-> IF returns THEN "returned" ELSE "handleKeyUp",
             keyType |-> keyType, settings |-> settings]
  /\ UNCHANGED <<volumeVars, gainVars, contextVars, loadVars, initVars, soundVars,
                 callVars>>
  /\ UNCHANGED workerVars

\* handleKeyup(event): as handleKeydown, without the debounce.  The last
\* statement calls this.audioManager.handleKeyUp(event, this.settings.volume).
HandleKeyup(event, settings, modifier) ==
  LET keyType == classifyKey(event.key, event.code)
      returns == \/ SettingsDisabled(settings)
                 \/ ~isReady
                 \/ modifier
                 \/ KeyTypeDisabled(keyType, settings)
  IN
  /\ ret' = [op |-> "handleKeyup",
             val |-> IF returns THEN "returned" ELSE "handleKeyUp",
             keyType |-> keyType, settings |-> settings]
  /\ UNCHANGED <<volumeVars, gainVars, contextVars, loadVars, initVars, soundVars,
                 callVars>>
  /\ UNCHANGED workerVars

\* The page delivers keydown and keyup events at any moment of the manager's
\* life - before and during initialize(), when it is ready, after destroy() -
\* and under any settings.
NextScript ==
  \/ InitializeOnce
  \/ Destroy
  \/ \E event \in EventInputs, settings \in SettingsInputs,
        recent \in BOOLEAN, modifier \in BOOLEAN :
       HandleKeydown(event, settings, recent, modifier)
  \/ \E event \in EventInputs, settings \in SettingsInputs, modifier \in BOOLEAN :
       HandleKeyup(event, settings, modifier)

SpecScript == Init /\ [][NextScript]_vars

\* C30: a key handler, keydown or keyup, calls the manager's playback method
\* only when settings.enabled is true, the manager is ready, and the key is
\* neither a space with enableSpacebarSound false nor an enter with
\* enableEnterSound false.
C30_NoPlaybackWhenDisabled ==
  [][ (ret' # ret /\ ret'.op \in {"handleKeydown", "handleKeyup"}
       /\ ret'.val \in {"handleKeyDown", "handleKeyUp"})
        => /\ ~ret'.settings.null /\ ret'.settings.enabled
           /\ isReady
           /\ ~(ret'.keyType = "space" /\ ~ret'.settings.enableSpacebarSound)
           /\ ~(ret'.keyType = "enter" /\ ~ret'.settings.enableEnterSound)
    ]_vars

\* C30 witness: on a ready manager a keyup of the space bar has returned without
\* calling the manager because enableSpacebarSound is false, the extension
\* being enabled
C30_Witness ==
  /\ isReady
  /\ ret.op = "handleKeyup" /\ ret.val = "returned"
  /\ ret.keyType = "space"
  /\ ~ret.settings.null /\ ret.settings.enabled
  /\ ~ret.settings.enableSpacebarSound /\ ret.settings.enableEnterSound

(***************************************************************************)
(* The counter and the set of active sources: claim C31                    *)
(***************************************************************************)
\* C31: in every reachable state concurrentSoundsCount equals the number of
\* sources in activeSourceNodes, also when the completion callbacks of sources
\* that stopAllSounds() force-stopped fire after new sounds were started.
C31_CountMatchesActiveSources ==
  concurrentSoundsCount = Cardinality(activeSourceNodes)

(***************************************************************************)
(* The pool across destroy(): claim C32                                    *)
(***************************************************************************)
\* C32: every gain node in gainNodePool was created by the manager's current
\* audio context; after destroy() the pool is empty until the next
\* initialize(), also when completion callbacks of sources that were active at
\* destroy time fire afterwards.
C32_PoolNodesOfCurrentContext ==
  \A g \in Range(gainNodePool) : g[1] = audioContext

(***************************************************************************)
(* Overlapping initialize() calls: claim C33                               *)
(***************************************************************************)
\* C33: an initialize() call issued while another one is suspended in resume
\* or preloading creates no second audio context and no second preload batch:
\* with no destroy(), at most one context has been created and at most one
\* batch of loads is in flight.
C33_OneContextOneBatch ==
  /\ Cardinality({c \in InitIds : ctxState[c] # "none"}) <= 1
  /\ Cardinality({i \in InitIds : \E n \in CatalogIdx : loads[i][n] = "pending"}) <= 1

(***************************************************************************)
(* The loading statistics: claim C34, under SpecLoad                       *)
(***************************************************************************)
\* C34: each catalog entry is counted exactly once in the loading statistics:
\* once the preloading of initialize() has completed,
\* loadedFiles + failedFiles = totalFiles.
C34_EachEntryCountedOnce ==
  initPc[1] \in {"resolved", "rejected"}
    => loadingStats.loadedFiles + loadingStats.failedFiles = loadingStats.totalFiles

(***************************************************************************)
(* getPreloadingStats(): claim C35, under SpecLoad                         *)
(***************************************************************************)
\* getPreloadingStats() without its loadTimeMs
getPreloadingStats ==
  [isComplete |-> preloadingPromise = 0,
   totalFiles |-> loadingStats.totalFiles,
   loadedFiles |-> loadingStats.loadedFiles,
   failedFiles |-> loadingStats.failedFiles,
   loadedBuffers |-> loadedBuffers]

\* C35: getPreloadingStats().isComplete is true exactly when no preloading is
\* in progress: false while the loads of initialize() are in flight, true once
\* preloading has finished, in particular after a successful initialize().
C35_IsCompleteIffNotPreloading ==
  getPreloadingStats.isComplete <=> (initPc[1] # "preload")

(***************************************************************************)
(* A failure while building the audio graph: claim C36, under SpecLife     *)
(***************************************************************************)
\* C36: when building the audio graph fails inside playKeySound after the gain
\* nodes have been acquired, the call has no net effect: activeSourceNodes and
\* concurrentSoundsCount are unchanged and the acquired gain nodes are back in
\* gainNodePool, whose size is what it was before the call.
C36_FailedPlayHasNoNetEffect ==
  [][ ( /\ ret' = [op |-> "playKeySound", val |-> "failed"]
        /\ (nPlay' # nPlay \/ playCalls' # playCalls)
        /\ audioContext # 0 )
        => /\ UNCHANGED <<activeSourceNodes, concurrentSoundsCount>>
           /\ Len(gainNodePool') = Len(gainNodePool)
           /\ Range(gainNodePool) \subseteq Range(gainNodePool')
    ]_vars

(***************************************************************************)
(* Injection of the content script: claim C37                              *)
(***************************************************************************)
\* The browser delivers onInstalled, onStartup and tabs.onUpdated in any order
\* and at any moment, the pages of the tabs staying the same; executeScript
\* calls resolve in any order or reject.
NextInject ==
  \/ \E reason \in {"install", "update"} :
       nInject < MaxInject /\ OnInstalled(reason)
  \/ nInject < MaxInject /\ OnStartup
  \/ \E t \in TabIds, status \in {"loading", "complete"} :
       nInject < MaxInject /\ TabUpdated(t, status)
  \/ \E call \in InjectCalls : InjectCheckResolves(call)
  \/ \E call \in InjectCalls : InjectFilesResolves(call)
  \/ \E call \in InjectCalls : InjectRejects(call)

SpecInject == Init /\ [][NextInject]_vars

\* C37: the service worker injects the content script into a given tab at most
\* once: whatever onInstalled, onStartup and tabs.onUpdated events arrive for
\* the same tab and page, content-script.js is executed in it at most once.
C37_InjectedAtMostOnce ==
  \A t \in TabIds : tabScripts[t] <= 1

(***************************************************************************)
(* Keyboard commands: claim C38                                            *)
(***************************************************************************)
\* The user issues the keyboard commands one after the other, each when the
\* handler of the one before has stored its value; nothing else writes the
\* settings.
NextCommands ==
  \/ \E command \in CommandNames : commandCalls = EmptyBag /\ OnCommand(command)
  \/ \E call \in CommandCalls : CommandSetSetting(call)

SpecCommands == Init /\ [][NextCommands]_vars

\* C38: from a stored volume v > 0 reached through volume-up and volume-down
\* commands, two consecutive toggle-mute commands leave the stored volume equal
\* to v: a toggle-mute that completes right after a toggle-mute that read
\* v > 0 stores v.
C38_ToggleMuteTwiceRestores ==
  [][ ( /\ ret.op = "onCommand" /\ ret.val = "toggle-mute" /\ ret.read > 0
        /\ \E call \in CommandCalls :
             call.command = "toggle-mute" /\ CommandSetSetting(call) )
        => storageSettings'.volume = ret.read
    ]_vars

====
